---- MODULE Spec2Model ----
(***************************************************************************)
(* Model of the BloomFilter class of src/main.cpp: the bit array, the      *)
(* seeded hash, insert, mightContain, the two size getters and the static  *)
(* optimalParameters.                                                      *)
(*                                                                         *)
(* size_t is 64 bits wide.  A 64-bit word is kept as five limbs, least     *)
(* significant first: four limbs of 15 bits and a top limb of 4 bits, so   *)
(* that every intermediate product stays below 2^31.                       *)
(***************************************************************************)
EXTENDS Integers, Sequences, FiniteSets

(* bitArray, numHashFunctions: the two members of BloomFilter.             *)
(* ctorSize, ctorHashes: the arguments the constructor was called with.    *)
(* inserted: the strings passed to insert so far.                          *)
(* lastOp, lastItem: the operation called last and its string argument;    *)
(* dup: the last insert's argument had been inserted before.               *)
(* ret: what mightContain returned; num: what a size getter returned.      *)
(* touched: the positions of bitArray the last operation read or wrote.    *)
(* ub: an operation left the defined behaviour (a division by zero in      *)
(* hash, an access outside bitArray).                                      *)
(* planN, planP, planRet: the arguments and the outcome of the last call   *)
(* of optimalParameters.                                                   *)
VARIABLES bitArray, numHashFunctions, ctorSize, ctorHashes, inserted,
          lastOp, lastItem, dup, ret, num, touched, ub,
          planN, planP, planRet

vars == <<bitArray, numHashFunctions, ctorSize, ctorHashes, inserted,
          lastOp, lastItem, dup, ret, num, touched, ub,
          planN, planP, planRet>>

filterVars == <<bitArray, numHashFunctions, ctorSize, ctorHashes, inserted,
                lastOp, lastItem, dup, ret, num, touched, ub>>

planVars == <<planN, planP, planRet>>

(***************************************************************************)
(* Bounds of the model.                                                    *)
(***************************************************************************)
MaxSize == 9
MaxHashes == 3
MaxInserts == 3
MaxN == 13
MaxGarbage == 2

(* The strings offered to insert and mightContain, as sequences of char    *)
(* codes: "", "a", "b", "ab", "ba", "item0".                               *)
Items == { <<>>, <<97>>, <<98>>, <<97, 98>>, <<98, 97>>,
           <<105, 116, 101, 109, 48>> }

(***************************************************************************)
(* 64-bit arithmetic on limbs.                                             *)
(***************************************************************************)
LimbBase == 32768
TopBase == 16

RECURSIVE BitXor(_, _)
BitXor(a, b) ==
    IF a = 0 THEN b
    ELSE IF b = 0 THEN a
    ELSE (((a % 2) + (b % 2)) % 2) + 2 * BitXor(a \div 2, b \div 2)

(* size_t hash = seed *)
SeedWord(seed) == <<seed % LimbBase, seed \div LimbBase, 0, 0, 0>>

(* hash ^= c, for a char c in 0..127 *)
XorChar(w, c) == [w EXCEPT ![1] = BitXor(w[1], c)]

(* 0x5bd1e995 = 27029 + 14243 * 2^15 + 1 * 2^30 *)
MulConst == <<27029, 14243, 1>>

(* the low and the high half of the partial products that land in limb j *)
ColSum(w, j) ==
    LET lo(t) == IF j - t >= 1 /\ j - t <= 5
                 THEN (w[j - t] * MulConst[t + 1]) % LimbBase ELSE 0
        hi(t) == IF j - 1 - t >= 1 /\ j - 1 - t <= 5
                 THEN (w[j - 1 - t] * MulConst[t + 1]) \div LimbBase ELSE 0
    IN  lo(0) + lo(1) + lo(2) + hi(0) + hi(1) + hi(2)

RECURSIVE Carry(_, _)
Carry(w, j) ==
    IF j = 0 THEN 0 ELSE (ColSum(w, j) + Carry(w, j - 1)) \div LimbBase

(* hash *= 0x5bd1e995, modulo 2^64 *)
MulWord(w) ==
    [j \in 1..5 |->
        LET s == ColSum(w, j) + Carry(w, j - 1)
        IN  IF j = 5 THEN s % TopBase ELSE s % LimbBase]

(* hash ^= hash >> 15: the shift by 15 bits drops the lowest limb *)
XorShift15(w) ==
    [j \in 1..5 |-> IF j = 5 THEN w[5] ELSE BitXor(w[j], w[j + 1])]

(* one iteration of the loop over the characters *)
MixChar(w, c) == XorShift15(MulWord(XorChar(w, c)))

RECURSIVE MixString(_, _, _)
MixString(w, item, pos) ==
    IF pos > Len(item) THEN w
    ELSE MixString(MixChar(w, item[pos]), item, pos + 1)

(* the accumulator before the final reduction, for every item and seed *)
HashWord == [item \in Items, seed \in 0..MaxHashes |->
                MixString(SeedWord(seed), item, 1)]

(* word % size, size >= 1 *)
ModWord(w, size) ==
    LET r5 == w[5] % size
        r4 == (r5 * LimbBase + w[4]) % size
        r3 == (r4 * LimbBase + w[3]) % size
        r2 == (r3 * LimbBase + w[2]) % size
    IN  (r2 * LimbBase + w[1]) % size

Size(bits) == Cardinality(DOMAIN bits)

(* mutant of hash: the accumulator is reduced modulo size + 1 *)
hashUnreduced(bits, item, seed) ==
    ModWord(HashWord[item, seed], Size(bits) + 1)

(* BloomFilter::hash; defined for a bit array of size >= 1 *)
hash(bits, item, seed) == ModWord(HashWord[item, seed], Size(bits))

(***************************************************************************)
(* The filter.  bitArray is a function from 0..size-1 to BOOLEAN.          *)
(***************************************************************************)

(* bitArray(size, false) *)
NewBitArray(size) == [pos \in 0..(size - 1) |-> FALSE]

(* mutant of SetBit: the bit is flipped instead of set *)
SetBitFlip(bits, pos) == [bits EXCEPT ![pos] = ~bits[pos]]

(* bitArray[pos] = true *)
SetBit(bits, pos) == [bits EXCEPT ![pos] = TRUE]

(* mutant of InsertLoop: the array is cleared before the first slot *)
RECURSIVE InsertLoopFresh(_, _, _, _)
InsertLoopFresh(bits, numHashes, item, i) ==
    LET base == IF i = 0 THEN [pos \in DOMAIN bits |-> FALSE] ELSE bits
    IN  IF i >= numHashes THEN base
        ELSE InsertLoopFresh([base EXCEPT
                                 ![ModWord(HashWord[item, i], Size(bits))] = TRUE],
                             numHashes, item, i + 1)

(* mutant of InsertLoop: the slots are seeded 1..k instead of 0..k-1 *)
RECURSIVE InsertLoopOneBased(_, _, _, _)
InsertLoopOneBased(bits, numHashes, item, i) ==
    IF i >= numHashes THEN bits
    ELSE InsertLoopOneBased(
             [bits EXCEPT ![ModWord(HashWord[item, i + 1], Size(bits))] = TRUE],
             numHashes, item, i + 1)

(* the loop of insert, from slot i on *)
RECURSIVE InsertLoop(_, _, _, _)
InsertLoop(bits, numHashes, item, i) ==
    IF i >= numHashes THEN bits
    ELSE InsertLoop(SetBit(bits, hash(bits, item, i)), numHashes, item, i + 1)

(* the positions insert writes, from slot i on *)
RECURSIVE InsertTouched(_, _, _, _)
InsertTouched(bits, numHashes, item, i) ==
    IF i >= numHashes THEN {}
    ELSE {hash(bits, item, i)} \cup InsertTouched(bits, numHashes, item, i + 1)

(* mutant of MightContainLoop: the slots are seeded 1..k instead of 0..k-1 *)
RECURSIVE MightContainLoopOneBased(_, _, _, _)
MightContainLoopOneBased(bits, numHashes, item, i) ==
    IF i >= numHashes THEN TRUE
    ELSE IF ~bits[ModWord(HashWord[item, i + 1], Size(bits))] THEN FALSE
    ELSE MightContainLoopOneBased(bits, numHashes, item, i + 1)

(* mutant of MightContainLoop: true as soon as one probed bit is set *)
RECURSIVE MightContainLoopAny(_, _, _, _)
MightContainLoopAny(bits, numHashes, item, i) ==
    IF i >= numHashes THEN (numHashes = 0)
    ELSE IF bits[ModWord(HashWord[item, i], Size(bits))] THEN TRUE
    ELSE MightContainLoopAny(bits, numHashes, item, i + 1)

(* the loop of mightContain, from slot i on: false at the first clear bit *)
RECURSIVE MightContainLoop(_, _, _, _)
MightContainLoop(bits, numHashes, item, i) ==
    IF i >= numHashes THEN TRUE
    ELSE IF ~bits[hash(bits, item, i)] THEN FALSE
    ELSE MightContainLoop(bits, numHashes, item, i + 1)

(* the positions mightContain reads, from slot i on; it stops at the first *)
(* clear bit, and a position outside the array ends the defined behaviour  *)
RECURSIVE MightContainTouched(_, _, _, _)
MightContainTouched(bits, numHashes, item, i) ==
    IF i >= numHashes THEN {}
    ELSE LET pos == hash(bits, item, i)
         IN  IF pos \notin DOMAIN bits \/ ~bits[pos] THEN {pos}
             ELSE {pos} \cup MightContainTouched(bits, numHashes, item, i + 1)

(* mutant of getMemoryUsage: the partial byte is dropped *)
getMemoryUsageTruncating(bits) == Size(bits) \div 8

(* bitArray.size() / 8 + (bitArray.size() % 8 ? 1 : 0) *)
getMemoryUsage(bits) ==
    (Size(bits) \div 8) + (IF Size(bits) % 8 # 0 THEN 1 ELSE 0)

getBitArraySize(bits) == Size(bits)

(* hash() divides by bitArray.size(): with an empty array and at least one *)
(* slot the first call is a division by zero.                              *)
DividesByZero == Size(bitArray) = 0 /\ numHashFunctions >= 1

NoPlan == [status |-> "none", m |-> 0, k |-> 0, ub |-> FALSE]

(* BloomFilter(size, numHashes): the constructor checks neither argument *)
Init ==
    /\ \E size \in 0..MaxSize, numHashes \in 0..MaxHashes :
          /\ bitArray = NewBitArray(size)
          /\ numHashFunctions = numHashes
          /\ ctorSize = size
          /\ ctorHashes = numHashes
    /\ inserted = {}
    /\ lastOp = "new"
    /\ lastItem = <<>>
    /\ dup = FALSE
    /\ ret = FALSE
    /\ num = 0
    /\ touched = {}
    /\ ub = FALSE
    /\ planN = 0
    /\ planP = 0
    /\ planRet = NoPlan

Insert(item) ==
    /\ Cardinality(inserted \cup {item}) <= MaxInserts
    /\ lastOp' = "insert"
    /\ lastItem' = item
    /\ dup' = (item \in inserted)
    /\ inserted' = inserted \cup {item}
    /\ IF DividesByZero
       THEN /\ touched' = {}
            /\ bitArray' = bitArray
            /\ ub' = TRUE
       ELSE /\ touched' = InsertTouched(bitArray, numHashFunctions, item, 0)
            /\ IF touched' \subseteq DOMAIN bitArray
               THEN /\ bitArray' = InsertLoop(bitArray, numHashFunctions, item, 0)
                    /\ ub' = ub
               ELSE /\ bitArray' = bitArray
                    /\ ub' = TRUE
    /\ ret' = FALSE
    /\ num' = 0
    /\ UNCHANGED <<numHashFunctions, ctorSize, ctorHashes, planVars>>

MightContain(item) ==
    /\ lastOp' = "mightContain"
    /\ lastItem' = item
    /\ dup' = FALSE
    /\ IF DividesByZero
       THEN /\ touched' = {}
            /\ ret' \in BOOLEAN
            /\ ub' = TRUE
       ELSE /\ touched' = MightContainTouched(bitArray, numHashFunctions, item, 0)
            /\ IF touched' \subseteq DOMAIN bitArray
               THEN /\ ret' = MightContainLoop(bitArray, numHashFunctions, item, 0)
                    /\ ub' = ub
               ELSE /\ ret' \in BOOLEAN
                    /\ ub' = TRUE
    /\ num' = 0
    /\ UNCHANGED <<bitArray, numHashFunctions, ctorSize, ctorHashes, inserted,
                   planVars>>

GetMemoryUsage ==
    /\ lastOp' = "getMemoryUsage"
    /\ lastItem' = <<>>
    /\ dup' = FALSE
    /\ num' = getMemoryUsage(bitArray)
    /\ ret' = FALSE
    /\ touched' = {}
    /\ UNCHANGED <<bitArray, numHashFunctions, ctorSize, ctorHashes, inserted,
                   ub, planVars>>

GetBitArraySize ==
    /\ lastOp' = "getBitArraySize"
    /\ lastItem' = <<>>
    /\ dup' = FALSE
    /\ num' = getBitArraySize(bitArray)
    /\ ret' = FALSE
    /\ touched' = {}
    /\ UNCHANGED <<bitArray, numHashFunctions, ctorSize, ctorHashes, inserted,
                   ub, planVars>>

Next ==
    \/ \E item \in Items : Insert(item)
    \/ \E item \in Items : MightContain(item)
    \/ GetMemoryUsage
    \/ GetBitArraySize

Spec == Init /\ [][Next]_vars

(***************************************************************************)
(* optimalParameters.  A double is [cls, v]: cls "fin" with v the value in *)
(* millionths, or "inf" with v the sign, or "nan".  The probability p is   *)
(* given in thousandths.                                                   *)
(***************************************************************************)
Scale == 1000000

(* log(2), in millionths *)
Ln2 == 693147

(* log(2) * log(2), in millionths *)
Ln2Squared == 480453

Fin(v) == [cls |-> "fin", v |-> v]
Inf(sign) == [cls |-> "inf", v |-> sign]
NaN == [cls |-> "nan", v |-> 0]

(* the probabilities offered to the planner, in thousandths *)
PlanPs == {-1000, 0, 10, 50, 100, 250, 500, 900, 1000, 2000}

(* the element counts offered to the planner *)
PlanNs == (0..MaxN) \cup {100}

(* log(p) *)
Log(p) ==
    IF p < 0 THEN NaN
    ELSE IF p = 0 THEN Inf(-1)
    ELSE Fin(CASE p = 10 -> -4605170
               [] p = 50 -> -2995732
               [] p = 100 -> -2302585
               [] p = 250 -> -1386294
               [] p = 500 -> -693147
               [] p = 900 -> -105361
               [] p = 1000 -> 0
               [] p = 2000 -> 693147)

(* expectedElements * x, expectedElements converted to double *)
TimesCount(n, x) ==
    IF x.cls = "fin" THEN Fin(n * x.v)
    ELSE IF x.cls = "inf" THEN (IF n = 0 THEN NaN ELSE x)
    ELSE NaN

(* -x *)
Negate(x) == IF x.cls = "nan" THEN NaN ELSE [x EXCEPT !.v = -x.v]

(* the least integer >= a / b, for b > 0 *)
CeilDiv(a, b) == -((-a) \div b)

(* ceil(x / (log(2) * log(2))), a whole number of units *)
CeilOverLn2Squared(x) ==
    IF x.cls = "fin" THEN Fin(CeilDiv(x.v, Ln2Squared)) ELSE x

(* the values a conversion of x to size_t can produce: x itself when it is *)
(* a whole number >= 0, anything when it is negative, infinite or NaN      *)
Garbage == 0..MaxGarbage

ToSizeT(x) == IF x.cls = "fin" /\ x.v >= 0 THEN {x.v} ELSE Garbage

ConversionDefined(x) == x.cls = "fin" /\ x.v >= 0

(* ceil((m / expectedElements) * log(2)): m / expectedElements divides two *)
(* size_t, so the quotient is truncated before the multiplication          *)
HashCount(m, n) == CeilDiv((m \div n) * Ln2, Scale)

(* the double handed to the conversion that initialises m *)
SizeAsDouble(n, p) == CeilOverLn2Squared(Negate(TimesCount(n, Log(p))))

OptimalParameters(n, p) ==
    /\ planN' = n
    /\ planP' = p
    /\ \E m \in ToSizeT(SizeAsDouble(n, p)) :
          IF n = 0
          THEN \/ planRet' = [status |-> "trapped", m |-> 0, k |-> 0, ub |-> TRUE]
               \/ \E k \in Garbage :
                     planRet' = [status |-> "returned", m |-> m, k |-> k,
                                 ub |-> TRUE]
          ELSE planRet' = [status |-> "returned", m |-> m,
                           k |-> HashCount(m, n),
                           ub |-> ~ConversionDefined(SizeAsDouble(n, p))]
    /\ UNCHANGED filterVars

InitPlanner ==
    /\ bitArray = NewBitArray(0)
    /\ numHashFunctions = 0
    /\ ctorSize = 0
    /\ ctorHashes = 0
    /\ inserted = {}
    /\ lastOp = "none"
    /\ lastItem = <<>>
    /\ dup = FALSE
    /\ ret = FALSE
    /\ num = 0
    /\ touched = {}
    /\ ub = FALSE
    /\ planN = 0
    /\ planP = 0
    /\ planRet = NoPlan

NextPlanner == \E n \in PlanNs, p \in PlanPs : OptimalParameters(n, p)

SpecPlanner == InitPlanner /\ [][NextPlanner]_vars

(***************************************************************************)
(* Properties.                                                             *)
(***************************************************************************)
Slots == 0..(numHashFunctions - 1)

WellBuilt == ctorSize >= 1 /\ ctorHashes >= 1

SetBits(bits) == {pos \in DOMAIN bits : bits[pos]}

(* the positions of an item in the current array *)
Positions(bits, numHashes, item) ==
    {hash(bits, item, i) : i \in 0..(numHashes - 1)}

(* C1: on a filter built with m >= 1 and k >= 1, mightContain answers true *)
(* for every string inserted so far, right after its insertion and after   *)
(* any further insertions.                                                 *)
NoFalseNegatives ==
    WellBuilt =>
        /\ \A item \in inserted :
              MightContainLoop(bitArray, numHashFunctions, item, 0)
        /\ (lastOp = "mightContain" /\ lastItem \in inserted) => ret

NoFalseNegativesWitness ==
    /\ lastOp = "mightContain"
    /\ lastItem \in inserted
    /\ Cardinality(inserted) >= 2
    /\ ret
    /\ ctorHashes >= 2
    /\ \E pos \in DOMAIN bitArray : ~bitArray[pos]

(* C2: a bit that is true stays true across every insert and mightContain, *)
(* and the array keeps its positions.                                      *)
MonotonicGrowth ==
    [][/\ DOMAIN bitArray' = DOMAIN bitArray
       /\ \A pos \in DOMAIN bitArray : bitArray[pos] => bitArray'[pos]]_vars

MonotonicGrowthWitness ==
    /\ lastOp = "insert"
    /\ ~dup
    /\ Cardinality(inserted) >= 2
    /\ \E pos \in DOMAIN bitArray : bitArray[pos] /\ pos \notin touched
    /\ \E pos \in DOMAIN bitArray : ~bitArray[pos]

(* C3: inserting a string that was inserted before changes no bit, and an  *)
(* insert repeated on the state it produced reproduces that state.         *)
InsertIdempotent ==
    [][(lastOp' = "insert" /\ ~ub') =>
          /\ InsertLoop(bitArray', numHashFunctions', lastItem', 0) = bitArray'
          /\ dup' => bitArray' = bitArray]_vars

InsertIdempotentWitness ==
    /\ lastOp = "insert"
    /\ dup
    /\ ctorHashes >= 2
    /\ Cardinality(touched) >= 2
    /\ \E pos \in DOMAIN bitArray : ~bitArray[pos]

(* C4: optimalParameters called with n = 0, p <= 0 or p >= 1 reports an    *)
(* invalid argument and returns no pair; it never yields m = 0.            *)
SizingRejection ==
    planRet.status # "none" =>
        /\ (planN = 0 \/ planP <= 0 \/ planP >= 1000) =>
              planRet.status = "invalid_argument"
        /\ planRet.status = "returned" => planRet.m # 0

(* C5: construction with m = 0 or k = 0 is rejected, so no filter that    *)
(* serves a call has a zero-length bit array or a zero hash count: no      *)
(* call reduces modulo 0 and none answers true while nothing is inserted.  *)
ConstructionRejection ==
    /\ ~ub
    /\ (lastOp = "mightContain" /\ inserted = {}) =>
          (~ret /\ ctorSize >= 1 /\ ctorHashes >= 1)

(* C6: for n >= 1 and 0 < p < 1 the planner returns                        *)
(* m = ceil(-(n ln p) / (ln 2)^2) and k = ceil((m / n) ln 2) with the      *)
(* real quotient m / n, so k >= (m / n) ln 2.                              *)
PlannerFormula ==
    (planRet.status # "none" /\ planN >= 1 /\ planP > 0 /\ planP < 1000) =>
        /\ planRet.status = "returned"
        /\ planRet.m = CeilDiv(planN * (-Log(planP).v), Ln2Squared)
        /\ planRet.k = CeilDiv(planRet.m * Ln2, planN * Scale)
        /\ planRet.k * planN * Scale >= planRet.m * Ln2

(* C7: on a filter of length m >= 1, in every state, memoryUsageBytes is   *)
(* ceil(m / 8) (1 for m = 1, 1 for m = 8, 2 for m = 9) and bitArraySize is *)
(* m.                                                                      *)
MemoryRoundUp ==
    ctorSize >= 1 =>
        /\ getMemoryUsage(bitArray) * 8 >= ctorSize
        /\ (getMemoryUsage(bitArray) - 1) * 8 < ctorSize
        /\ ctorSize = 1 => getMemoryUsage(bitArray) = 1
        /\ ctorSize = 8 => getMemoryUsage(bitArray) = 1
        /\ ctorSize = 9 => getMemoryUsage(bitArray) = 2
        /\ getBitArraySize(bitArray) = ctorSize
        /\ lastOp = "getMemoryUsage" => num = getMemoryUsage(bitArray)
        /\ lastOp = "getBitArraySize" => num = ctorSize

MemoryRoundUpWitness ==
    /\ lastOp = "getMemoryUsage"
    /\ ctorSize = 9
    /\ num = 2
    /\ inserted # {}

(* C8: on a filter with m >= 1 and k >= 1, insert and mightContain accept  *)
(* every string, the empty one included, and every position they touch is *)
(* hash(s, i) mod m, within 0..m-1.                                        *)
AccessInBounds ==
    WellBuilt =>
        /\ ~ub
        /\ touched \subseteq 0..(ctorSize - 1)
        /\ \A item \in Items, i \in Slots :
              hash(bitArray, item, i) \in DOMAIN bitArray
        /\ lastOp \in {"insert", "mightContain"} =>
              /\ touched # {}
              /\ touched \subseteq Positions(bitArray, numHashFunctions, lastItem)
        /\ \A item \in Items : ENABLED MightContain(item)
        /\ \A item \in Items :
              Cardinality(inserted \cup {item}) <= MaxInserts =>
                  ENABLED Insert(item)

AccessInBoundsWitness ==
    /\ lastOp = "mightContain"
    /\ lastItem = <<>>
    /\ <<>> \in inserted
    /\ ctorSize >= 2
    /\ ctorHashes >= 2
    /\ Cardinality(touched) >= 2
    /\ ~ub

(* the slots mightContain probes before it returns: all of them when every *)
(* bit is set, else those up to the first clear bit                        *)
ProbedSlots(bits, numHashes, item) ==
    {i \in 0..(numHashes - 1) :
        \A j \in 0..(i - 1) : bits[hash(bits, item, j)]}

(* C9: mightContain returns true exactly when all k bits at                *)
(* hash(s, i) mod m are true, stops at the first false one, and leaves the *)
(* filter unchanged; a fresh filter with k >= 1 answers false.             *)
ExactQuery ==
    [][(lastOp' = "mightContain" /\ ~DividesByZero) =>
          /\ ret' = (\A i \in Slots : bitArray[hash(bitArray, lastItem', i)])
          /\ touched' = {hash(bitArray, lastItem', i) :
                           i \in ProbedSlots(bitArray, numHashFunctions, lastItem')}
          /\ touched' \subseteq InsertTouched(bitArray, numHashFunctions,
                                               lastItem', 0)
          /\ bitArray' = bitArray
          /\ DOMAIN bitArray' = 0..(ctorSize - 1)
          /\ numHashFunctions' = numHashFunctions
          /\ (inserted = {} /\ numHashFunctions >= 1) => ~ret']_vars

ExactQueryWitness ==
    /\ lastOp = "mightContain"
    /\ ~ret
    /\ inserted # {}
    /\ Cardinality(touched) >= 2
    /\ Cardinality(touched) < numHashFunctions

(* the array that a set of inserted strings determines *)
BitsOf(bits, numHashes, items) ==
    [pos \in DOMAIN bits |->
        \E item \in items : pos \in Positions(bits, numHashes, item)]

(* C10: insert sets exactly the bits at hash(s, i) mod m, i in [0, k), so  *)
(* at most k bits turn true; m and k stay as constructed; the array is     *)
(* determined by the set of inserted strings.                              *)
InsertFrame ==
    [][(lastOp' = "insert" /\ ~DividesByZero) =>
          /\ bitArray' =
                [pos \in DOMAIN bitArray |->
                    bitArray[pos]
                    \/ pos \in Positions(bitArray, numHashFunctions, lastItem')]
          /\ Cardinality(SetBits(bitArray') \ SetBits(bitArray))
                <= numHashFunctions
          /\ DOMAIN bitArray' = 0..(ctorSize - 1)
          /\ numHashFunctions' = ctorHashes
          /\ bitArray' = BitsOf(bitArray', numHashFunctions', inserted')]_vars

InsertFrameWitness ==
    /\ lastOp = "insert"
    /\ ~dup
    /\ Cardinality(inserted) >= 2
    /\ Cardinality(touched) < numHashFunctions
    /\ \E pos \in DOMAIN bitArray : bitArray[pos] /\ pos \notin touched
    /\ \E pos \in DOMAIN bitArray : ~bitArray[pos]

====
